---- MODULE Spec2Model ----
(***************************************************************************)
(* Stock and price synchronisation between a remnants feed and two         *)
(* marketplaces: seller.py (Marketplace B, offer-id style) and market.py   *)
(* (Marketplace A, offer-mapping style).                                   *)
(*                                                                         *)
(* Representation.  A Python str is a sequence of one-character strings.   *)
(* A feed cell is a tagged value [type, val]: type "str" with val a        *)
(* sequence of characters, or type "int" with val an integer.  A product   *)
(* code / offer id is a natural number standing for its decimal string, so *)
(* str() of a code is that number.  None is the record [type |-> "None"].  *)
(***************************************************************************)
EXTENDS Integers, Sequences, FiniteSets, TLC

(***************************************************************************)
(* Bounds of the model.                                                    *)
(***************************************************************************)
\* offer ids and product codes of the small worlds are 1..MaxId
MaxId == 2
\* rows of a feed given to create_stocks and create_prices on their own
MaxFeedRows == 2
\* length of a small offer list; items a small catalog listing accumulates
MaxItems == 2
\* length of the strings given to price_conversion on its own
MaxStrLen == 3
\* length of the lists given to divide on its own
MaxListLen == 5
\* the largest n given to divide on its own
MaxChunk == 3

(***************************************************************************)
(* Python values and built-ins used by the code.                           *)
(***************************************************************************)
S(chars) == [type |-> "str", val |-> chars]
I(n) == [type |-> "int", val |-> n]
\* the float whole.frac, as pandas reads a numeric cell
Float(whole, frac) == [type |-> "float", whole |-> whole, frac |-> frac]
None == [type |-> "None"]

Digits == <<"0", "1", "2", "3", "4", "5", "6", "7", "8", "9">>
IsDigit(c) == \E d \in 1..10 : Digits[d] = c
DigitVal(c) == (CHOOSE d \in 1..10 : Digits[d] = c) - 1

Min(a, b) == IF a < b THEN a ELSE b

RECURSIVE DigitsValue(_)
DigitsValue(s) ==
  IF s = <<>> THEN 0
  ELSE 10 * DigitsValue(SubSeq(s, 1, Len(s) - 1)) + DigitVal(s[Len(s)])

RECURSIVE NatToStr(_)
NatToStr(n) ==
  IF n < 10 THEN <<Digits[n + 1]>>
  ELSE Append(NatToStr(n \div 10), Digits[(n % 10) + 1])

\* str(x) of a feed cell
PyStr(x) ==
  IF x.type = "str" THEN x.val
  ELSE IF x.type = "int"
       THEN IF x.val < 0 THEN <<"-">> \o NatToStr(-x.val) ELSE NatToStr(x.val)
       ELSE <<"N", "o", "n", "e">>

\* s.strip() for the blank " "
Strip(s) ==
  LET nb == {i \in 1..Len(s) : s[i] # " "}
  IN IF nb = {} THEN <<>>
     ELSE SubSeq(s, CHOOSE i \in nb : \A j \in nb : i <= j,
                    CHOOSE i \in nb : \A j \in nb : j <= i)

\* int(x): [ok |-> TRUE, val] or the exception raised
PyInt(x) ==
  IF x.type = "int" THEN [ok |-> TRUE, val |-> x.val]
  ELSE IF x.type # "str" THEN [ok |-> FALSE, err |-> "TypeError"]
  ELSE LET t == Strip(x.val)
           signed == t # <<>> /\ t[1] \in {"+", "-"}
           body == IF signed THEN Tail(t) ELSE t
       IN IF body # <<>> /\ \A i \in 1..Len(body) : IsDigit(body[i])
          THEN [ok |-> TRUE,
                val |-> IF signed /\ t[1] = "-" THEN -DigitsValue(body)
                        ELSE DigitsValue(body)]
          ELSE [ok |-> FALSE, err |-> "ValueError"]

\* x in lst
InList(x, lst) == \E i \in 1..Len(lst) : lst[i] = x

\* faulty variant: remove() leaves the list as it is
ListRemove_keeps(lst, x) == lst

\* lst.remove(x): the first occurrence goes (x is in lst at every call)
ListRemove(lst, x) ==
  LET k == CHOOSE i \in 1..Len(lst) : lst[i] = x /\ \A j \in 1..(i - 1) : lst[j] # x
  IN SubSeq(lst, 1, k - 1) \o SubSeq(lst, k + 1, Len(lst))

(***************************************************************************)
(* seller.py: price_conversion and divide (market.py imports both).        *)
(***************************************************************************)
\* price.split(".")[0]
BeforeDot(s) ==
  LET dots == {i \in 1..Len(s) : s[i] = "."}
  IN IF dots = {} THEN s
     ELSE SubSeq(s, 1, (CHOOSE i \in dots : \A j \in dots : i <= j) - 1)

\* faulty variant: the digits of the whole string, fraction included
price_conversion_whole(price) ==
  IF price.type # "str" THEN [ok |-> FALSE, err |-> "AttributeError"]
  ELSE [ok |-> TRUE, val |-> SelectSeq(price.val, IsDigit)]

price_conversion(price) ==
  IF price.type # "str" THEN [ok |-> FALSE, err |-> "AttributeError"]
  ELSE [ok |-> TRUE, val |-> SelectSeq(BeforeDot(price.val), IsDigit)]

\* faulty variant: the parts are one element longer
divide_longer(lst, n) ==
  IF n = 0 THEN [ok |-> FALSE, err |-> "ValueError"]
  ELSE IF n < 0 \/ lst = <<>> THEN [ok |-> TRUE, val |-> <<>>]
  ELSE [ok |-> TRUE,
        val |-> [k \in 1..((Len(lst) + n) \div (n + 1)) |->
                   SubSeq(lst, (k - 1) * (n + 1) + 1, Min(k * (n + 1), Len(lst)))]]

\* faulty variant: a last part shorter than n is left out
divide_whole_parts(lst, n) ==
  IF n = 0 THEN [ok |-> FALSE, err |-> "ValueError"]
  ELSE IF n < 0 THEN [ok |-> TRUE, val |-> <<>>]
  ELSE [ok |-> TRUE,
        val |-> [k \in 1..(Len(lst) \div n) |-> SubSeq(lst, (k - 1) * n + 1, k * n)]]

\* list(divide(lst, n)): range(0, len(lst), n) raises ValueError for n = 0 and
\* is empty for n < 0
divide(lst, n) ==
  IF n = 0 THEN [ok |-> FALSE, err |-> "ValueError"]
  ELSE IF n < 0 THEN [ok |-> TRUE, val |-> <<>>]
  ELSE [ok |-> TRUE,
        val |-> [k \in 1..((Len(lst) + n - 1) \div n) |->
                   SubSeq(lst, (k - 1) * n + 1, Min(k * n, Len(lst)))]]

\* faulty variant: the quantity "1" is taken as the number 1
StockOf_one(watch) ==
  IF PyStr(watch.qty) = <<">", "1", "0">> THEN [ok |-> TRUE, val |-> 100]
  ELSE PyInt(watch.qty)

\* the quantity rule shared by both create_stocks
StockOf(watch) ==
  LET count == PyStr(watch.qty)
  IN IF count = <<">", "1", "0">> THEN [ok |-> TRUE, val |-> 100]
     ELSE IF count = <<"1">> THEN [ok |-> TRUE, val |-> 0]
     ELSE PyInt(watch.qty)

(***************************************************************************)
(* seller.py: the loop bodies of create_stocks and create_prices.          *)
(***************************************************************************)
seller_stock_row(st, watch) ==
  IF ~InList(watch.code, st.offer_ids) THEN st
  ELSE LET stock == StockOf(watch)
       IN IF ~stock.ok THEN [st EXCEPT !.ok = FALSE, !.err = stock.err]
          ELSE [st EXCEPT
                  !.out = Append(@, [offer_id |-> watch.code, stock |-> stock.val]),
                  !.offer_ids = ListRemove(@, watch.code)]

\* faulty variant: a matched code is taken out of the offer list, as
\* create_stocks does
seller_price_row_once(st, watch) ==
  IF ~InList(watch.code, st.offer_ids) THEN st
  ELSE LET conv == price_conversion(watch.price)
       IN IF ~conv.ok THEN [st EXCEPT !.ok = FALSE, !.err = conv.err]
          ELSE [st EXCEPT
                  !.out = Append(@, [auto_action_enabled |-> "UNKNOWN",
                                     currency_code |-> "RUB",
                                     offer_id |-> watch.code,
                                     old_price |-> "0",
                                     price |-> conv.val]),
                  !.offer_ids = ListRemove(@, watch.code)]

seller_price_row(st, watch) ==
  IF ~InList(watch.code, st.offer_ids) THEN st
  ELSE LET conv == price_conversion(watch.price)
       IN IF ~conv.ok THEN [st EXCEPT !.ok = FALSE, !.err = conv.err]
          ELSE [st EXCEPT
                  !.out = Append(@, [auto_action_enabled |-> "UNKNOWN",
                                     currency_code |-> "RUB",
                                     offer_id |-> watch.code,
                                     old_price |-> "0",
                                     price |-> conv.val])]

(***************************************************************************)
(* market.py: the loop bodies of create_stocks and create_prices.          *)
(***************************************************************************)
\* str(datetime.utcnow().replace(microsecond=0).isoformat() + "Z")
UtcNow == "utcnow"

StockItem(sku, warehouse_id, count) ==
  [sku |-> sku, warehouseId |-> warehouse_id,
   items |-> <<[count |-> count, type |-> "FIT", updatedAt |-> UtcNow]>>]

market_stock_row(st, watch) ==
  IF ~InList(watch.code, st.offer_ids) THEN st
  ELSE LET stock == StockOf(watch)
       IN IF ~stock.ok THEN [st EXCEPT !.ok = FALSE, !.err = stock.err]
          ELSE [st EXCEPT
                  !.out = Append(@, StockItem(watch.code, st.warehouse_id, stock.val)),
                  !.offer_ids = ListRemove(@, watch.code)]

market_price_row(st, watch) ==
  IF ~InList(watch.code, st.offer_ids) THEN st
  ELSE LET conv == price_conversion(watch.price)
           value == IF conv.ok THEN PyInt(S(conv.val)) ELSE conv
       IN IF ~value.ok THEN [st EXCEPT !.ok = FALSE, !.err = value.err]
          ELSE [st EXCEPT
                  !.out = Append(@, [id |-> watch.code,
                                     price |-> [value |-> value.val,
                                                currencyId |-> "RUR"]])]

\* a Python list as an argument that may also be None
L(items) == [type |-> "list", val |-> items]

\* list(divide(arg, n)) for an argument that may be None: len(arg) is
\* evaluated first and raises TypeError for None
list_divide(arg, n) ==
  IF arg.type # "list" THEN [ok |-> FALSE, err |-> "TypeError"]
  ELSE divide(arg.val, n)

(***************************************************************************)
(* Loops over the feed.  A loop state carries ok (no exception so far);    *)
(* the rows lo..hi are visited in order and the loop ends at the first     *)
(* exception.  The range is halved so that a long feed is a shallow        *)
(* evaluation; the state after the first half is computed once.            *)
(***************************************************************************)
\* seller create_stocks: for watch in watch_remnants
RECURSIVE seller_stock_loop(_, _, _, _)
seller_stock_loop(rows, lo, hi, st) ==
  IF lo > hi \/ ~st.ok THEN st
  ELSE IF lo = hi THEN seller_stock_row(st, rows[lo])
  ELSE CHOOSE last \in {seller_stock_loop(rows, ((lo + hi) \div 2) + 1, hi, half) :
                           half \in {seller_stock_loop(rows, lo, (lo + hi) \div 2, st)}} : TRUE

\* seller create_prices: for watch in watch_remnants
RECURSIVE seller_price_loop(_, _, _, _)
seller_price_loop(rows, lo, hi, st) ==
  IF lo > hi \/ ~st.ok THEN st
  ELSE IF lo = hi THEN seller_price_row(st, rows[lo])
  ELSE CHOOSE last \in {seller_price_loop(rows, ((lo + hi) \div 2) + 1, hi, half) :
                           half \in {seller_price_loop(rows, lo, (lo + hi) \div 2, st)}} : TRUE

\* market create_stocks: for watch in watch_remnants
RECURSIVE market_stock_loop(_, _, _, _)
market_stock_loop(rows, lo, hi, st) ==
  IF lo > hi \/ ~st.ok THEN st
  ELSE IF lo = hi THEN market_stock_row(st, rows[lo])
  ELSE CHOOSE last \in {market_stock_loop(rows, ((lo + hi) \div 2) + 1, hi, half) :
                           half \in {market_stock_loop(rows, lo, (lo + hi) \div 2, st)}} : TRUE

\* market create_prices: for watch in watch_remnants
RECURSIVE market_price_loop(_, _, _, _)
market_price_loop(rows, lo, hi, st) ==
  IF lo > hi \/ ~st.ok THEN st
  ELSE IF lo = hi THEN market_price_row(st, rows[lo])
  ELSE CHOOSE last \in {market_price_loop(rows, ((lo + hi) \div 2) + 1, hi, half) :
                           half \in {market_price_loop(rows, lo, (lo + hi) \div 2, st)}} : TRUE

(***************************************************************************)
(* create_stocks and create_prices of both files.                          *)
(***************************************************************************)
\* faulty variant: the loop works on a copy and the caller's list stays whole
seller_create_stocks_on_copy(watch_remnants, offer_ids) ==
  LET loop == seller_stock_loop(watch_remnants, 1, Len(watch_remnants),
                      [ok |-> TRUE, err |-> "", out |-> <<>>, offer_ids |-> offer_ids])
  IN IF ~loop.ok THEN [loop EXCEPT !.offer_ids = offer_ids]
     ELSE [loop EXCEPT
             !.out = @ \o [i \in 1..Len(loop.offer_ids) |->
                             [offer_id |-> loop.offer_ids[i], stock |-> 0]],
             !.offer_ids = offer_ids]

\* returns [ok, err, out, offer_ids]: out is the list returned when ok, and
\* offer_ids is the caller's list as the call leaves it
seller_create_stocks(watch_remnants, offer_ids) ==
  LET loop == seller_stock_loop(watch_remnants, 1, Len(watch_remnants),
                      [ok |-> TRUE, err |-> "", out |-> <<>>, offer_ids |-> offer_ids])
  IN IF ~loop.ok THEN loop
     ELSE [loop EXCEPT
             !.out = @ \o [i \in 1..Len(loop.offer_ids) |->
                             [offer_id |-> loop.offer_ids[i], stock |-> 0]]]

seller_create_prices(watch_remnants, offer_ids) ==
  seller_price_loop(watch_remnants, 1, Len(watch_remnants),
          [ok |-> TRUE, err |-> "", out |-> <<>>, offer_ids |-> offer_ids])

market_create_stocks(watch_remnants, offer_ids, warehouse_id) ==
  LET loop == market_stock_loop(watch_remnants, 1, Len(watch_remnants),
                      [ok |-> TRUE, err |-> "", out |-> <<>>, offer_ids |-> offer_ids,
                       warehouse_id |-> warehouse_id])
  IN IF ~loop.ok THEN loop
     ELSE [loop EXCEPT
             !.out = @ \o [i \in 1..Len(loop.offer_ids) |->
                             StockItem(loop.offer_ids[i], warehouse_id, 0)]]

market_create_prices(watch_remnants, offer_ids) ==
  market_price_loop(watch_remnants, 1, Len(watch_remnants),
          [ok |-> TRUE, err |-> "", out |-> <<>>, offer_ids |-> offer_ids])

(***************************************************************************)
(* Program constants.                                                      *)
(***************************************************************************)
SellerPageLimit == 1000
SellerStockBatch == 100
SellerMainPriceBatch == 900
SellerUploadPriceBatch == 1000
MarketPageLimit == 200
MarketStockBatch == 2000
MarketPriceBatch == 500

(***************************************************************************)
(* State.  One behaviour is one run of one entry point (prog): main of     *)
(* either file, one of the upload_* coroutines awaited by a caller, or a   *)
(* single call of price_conversion.                                        *)
(***************************************************************************)
VARIABLES
  prog,            \* the entry point of this run
  world,           \* "free": the catalog service may answer anything;
                   \* "honest": it serves its catalog page by page
  catalog,         \* the offer ids the honest service holds
  env,             \* TRUE when every required environment value is set
  call,            \* the argument of the price_conversion call
  pc,              \* the network step the run is waiting at, or how it ended
  err,             \* the exception that ended the run ("" for none)
  printed,         \* the message main printed from an except clause
  campaign,        \* market.py: the campaign being synchronised
  watch_remnants,  \* the feed rows
  page,            \* get_offer_ids: last_id (seller) or page (market)
  total,           \* get_offer_ids (seller): total of the last response
  product_list,    \* get_offer_ids: the items accumulated
  offer_ids,       \* the caller's offer_ids list
  stocks,          \* the stock records built last
  prices,          \* the price records built last
  todo,            \* the batches of the running for loop not yet submitted
  ret,             \* the value returned by an upload_* coroutine or a call
  pending,         \* coroutine objects created and never awaited
  downloaded,      \* history: download_stock has returned the feed to main
  first,           \* history: the running listing has received no response yet
  last_response,   \* history: the paging part of the last catalog response
  received,        \* history: the items of the pages the last listing received
  listings,        \* history: the lists get_offer_ids returned, in order
  built,           \* history: the record lists built, in order
  sent             \* history: the update requests submitted, in order

consts == <<prog, world, catalog, env, call>>
frame == <<pc, err, printed, campaign, watch_remnants, page, total, product_list,
           offer_ids, stocks, prices, todo, ret, pending, downloaded, first, last_response,
           received, listings, built, sent>>
vars == <<consts, frame>>

SellerProgs == {"seller.main", "seller.upload_prices", "seller.upload_stocks"}
MarketProgs == {"market.main", "market.upload_prices", "market.upload_stocks"}
Mains == {"seller.main", "market.main"}
Uploads == (SellerProgs \cup MarketProgs) \ Mains

\* the locals of the run as one record, and their assignment
Cur ==
  [pc |-> pc, err |-> err, printed |-> printed, campaign |-> campaign,
   watch_remnants |-> watch_remnants, page |-> page, total |-> total,
   product_list |-> product_list, offer_ids |-> offer_ids, stocks |-> stocks,
   prices |-> prices, todo |-> todo, ret |-> ret, pending |-> pending,
   downloaded |-> downloaded,
   first |-> first, last_response |-> last_response, received |-> received,
   listings |-> listings, built |-> built, sent |-> sent]

Apply(next) ==
  \E f \in {next} :
    /\ pc' = f.pc /\ err' = f.err /\ printed' = f.printed /\ campaign' = f.campaign
    /\ watch_remnants' = f.watch_remnants /\ page' = f.page /\ total' = f.total
    /\ product_list' = f.product_list /\ offer_ids' = f.offer_ids
    /\ stocks' = f.stocks /\ prices' = f.prices /\ todo' = f.todo /\ ret' = f.ret
    /\ pending' = f.pending /\ downloaded' = f.downloaded
    /\ last_response' = f.last_response
    /\ received' = f.received /\ first' = f.first /\ listings' = f.listings
    /\ built' = f.built
    /\ sent' = f.sent
    /\ UNCHANGED consts

(***************************************************************************)
(* Exceptions.  The network steps raise one of NetErrors; main's except    *)
(* clauses print a message; a coroutine has no handler.                    *)
(***************************************************************************)
NetErrors == {"ReadTimeout", "ConnectionError", "HTTPError"}

\* the except clauses of main (both files)
main_except(e) ==
  IF e = "ReadTimeout" THEN "timeout message"
  ELSE IF e = "ConnectionError" THEN "connection error message"
  ELSE "ERROR_2"

\* faulty variant: the failed request is issued again
Throw_retry(f, e) == [f EXCEPT !.err = e]

\* an exception raised at the current point of the run
Throw(f, e) ==
  IF prog \in Mains
  THEN [f EXCEPT !.pc = "done", !.err = e, !.printed = main_except(e)]
  ELSE [f EXCEPT !.pc = "raised", !.err = e]

\* faulty variant: the statement is inside the try block of main
Uncaught_in_try(f, e) == Throw(f, e)

\* an exception raised outside main's try block
Uncaught(f, e) == [f EXCEPT !.pc = "crashed", !.err = e]

(***************************************************************************)
(* The external services.                                                  *)
(***************************************************************************)
Ids == 1..MaxId
SeqsUpTo(n) == UNION {[1..k -> Ids] : k \in 0..n}

\* (Количество, Цена) of the rows of a small feed
Cells ==
  {<<S(<<">", "1", "0">>), S(<<"5", "'", "9", "9", "0", ".", "0", "0">>)>>,
   <<S(<<"1">>), S(<<"2", "5", "0">>)>>,
   <<S(<<"5">>), S(<<"1", "2", ".", "5">>)>>,
   <<S(<<"a", "b", "c">>), S(<<"x">>)>>}
Rows == {[code |-> c, qty |-> q[1], price |-> q[2]] : c \in Ids, q \in Cells}
\* the rows of the feeds given to create_stocks on its own: "10" besides ">10"
CallRows == Rows \cup {[code |-> c, qty |-> S(<<"1", "0">>), price |-> S(<<"0">>)] : c \in Ids}
FeedsUpTo(n) == UNION {[1..k -> CallRows] : k \in 0..n}
\* the rows of the feeds given to create_prices on its own: the price is a
\* string or a number (1500.75, 1000.0)
PriceCells ==
  {S(<<"5", "'", "9", "9", "0", ".", "0", "0">>), S(<<"x">>), Float(1500, 75), Float(1000, 0)}
PriceCallRows == {[code |-> c, qty |-> S(<<"5">>), price |-> p] : c \in Ids, p \in PriceCells}
PriceFeedsUpTo(n) == UNION {[1..k -> PriceCallRows] : k \in 0..n}

\* a feed long enough to fill a batch of every size and start the next
BigFeed ==
  [i \in 1..(SellerUploadPriceBatch + 1) |->
     [code |-> i,
      qty |-> IF i % 3 = 0 THEN S(<<">", "1", "0">>)
              ELSE IF i % 3 = 1 THEN S(<<"1">>) ELSE S(<<"5">>),
      price |-> S(<<"5", "'", "9", "9", "0", ".", "0", "0">>)]]

\* seller: every code of BigFeed, then the first codes once more
BigCatalogSeller ==
  [i \in 1..(SellerUploadPriceBatch + 1 + SellerMainPriceBatch + 1) |->
     IF i <= SellerUploadPriceBatch + 1 THEN i ELSE i - (SellerUploadPriceBatch + 1)]
BigCatalogMarket == [i \in 1..(MarketStockBatch + 1) |-> i]

IsBig(cat) == Len(cat) > MaxItems + 1

\* the feeds download_stock may return in this world
Feeds ==
  IF IsBig(catalog) THEN {BigFeed} ELSE {<<>>} \cup {<<row>> : row \in Rows}

SmallTokens == {S(<<>>), S(<<"1">>)}

\* the position a cursor of the honest service stands for
Pos(tok) == IF tok.type = "str" THEN DigitsValue(tok.val) ELSE 0

\* the sizes of the page the honest service returns with `remaining` items left
HonestSizes(remaining, limit) ==
  IF remaining = 0 THEN {0}
  ELSE IF remaining > MaxItems + 1 THEN {Min(limit, remaining)}
  ELSE 1..remaining

SellerItems(ids) == [i \in 1..Len(ids) |-> [offer_id |-> ids[i]]]
MarketItems(ids) == [i \in 1..Len(ids) |-> [offer |-> [shopSku |-> ids[i]]]]

\* the "result" objects the seller product list may answer to last_id
SellerResponses(last_id) ==
  IF world = "free"
  THEN UNION {{[items |-> SellerItems(p), total |-> t, last_id |-> l] :
                 t \in {0, Len(product_list) + Len(p), MaxItems},
                 l \in SmallTokens} :
              p \in SeqsUpTo(MaxItems - Len(product_list))}
  ELSE LET pos == Pos(last_id)
       IN {[items |-> SellerItems(SubSeq(catalog, pos + 1, pos + k)),
            total |-> Len(catalog),
            last_id |-> S(NatToStr(pos + k))] :
             k \in HonestSizes(Len(catalog) - pos, SellerPageLimit)}

\* the "result" objects the market offer mapping may answer to page_token
MarketResponses(page_token) ==
  IF world = "free"
  THEN {[offerMappingEntries |-> MarketItems(p), paging |-> [nextPageToken |-> l]] :
          p \in SeqsUpTo(MaxItems - Len(product_list)),
          l \in SmallTokens \cup {S(<<"2">>), None}}
  ELSE LET pos == Pos(page_token)
       IN {[offerMappingEntries |-> MarketItems(SubSeq(catalog, pos + 1, pos + k)),
            paging |-> [nextPageToken |->
                          IF pos + k < Len(catalog) THEN S(NatToStr(pos + k))
                          ELSE None]] :
             k \in HonestSizes(Len(catalog) - pos, MarketPageLimit)}

\* get_offer_ids starts: an empty cursor and an empty product_list
EnterListing(f) ==
  [f EXCEPT !.pc = "catalog", !.page = S(<<>>), !.total = 0, !.product_list = <<>>,
            !.first = TRUE]

\* history: get_offer_ids returns f.offer_ids
Returned(f) == [f EXCEPT !.listings = Append(@, f.offer_ids)]

\* history: the list `records` is built
Built(f, kind, records) ==
  [f EXCEPT !.built = Append(@, [kind |-> kind, campaign |-> f.campaign,
                                 records |-> records])]

\* one update request for the first batch of the running loop
Submit(f, kind, ok) ==
  [f EXCEPT !.sent = Append(@, [kind |-> kind, campaign |-> f.campaign,
                                batch |-> Head(f.todo), ok |-> ok]),
            !.todo = IF ok THEN Tail(@) ELSE @]

(***************************************************************************)
(* seller.py: main, upload_prices, upload_stocks, get_offer_ids.           *)
(***************************************************************************)
\* faulty variant: main cuts its prices as upload_prices does
seller_main_prices_as_upload(f) ==
  LET cp == seller_create_prices(f.watch_remnants, f.offer_ids)
      batches == divide(cp.out, SellerUploadPriceBatch).val
  IN IF ~cp.ok THEN Throw(f, cp.err)
     ELSE [Built(f, "prices", cp.out) EXCEPT
             !.prices = cp.out, !.todo = batches,
             !.pc = IF batches = <<>> THEN "done" ELSE "prices"]

\* main from create_prices to the first update_price request
seller_main_prices(f) ==
  LET cp == seller_create_prices(f.watch_remnants, f.offer_ids)
      batches == divide(cp.out, SellerMainPriceBatch).val
  IN IF ~cp.ok THEN Throw(f, cp.err)
     ELSE [Built(f, "prices", cp.out) EXCEPT
             !.prices = cp.out, !.todo = batches,
             !.pc = IF batches = <<>> THEN "done" ELSE "prices"]

\* main from create_stocks to the first update request
seller_main_stocks(f) ==
  LET cs == seller_create_stocks(f.watch_remnants, f.offer_ids)
      g == [f EXCEPT !.offer_ids = cs.offer_ids]
      h == [Built(g, "stocks", cs.out) EXCEPT !.stocks = cs.out]
      batches == divide(cs.out, SellerStockBatch).val
  IN IF ~cs.ok THEN Throw(g, cs.err)
     ELSE IF batches = <<>> THEN seller_main_prices(h)
     ELSE [h EXCEPT !.todo = batches, !.pc = "stocks"]

\* upload_prices from create_prices to the first update_price request
seller_upload_prices(f) ==
  LET cp == seller_create_prices(f.watch_remnants, f.offer_ids)
      batches == divide(cp.out, SellerUploadPriceBatch).val
  IN IF ~cp.ok THEN Throw(f, cp.err)
     ELSE IF batches = <<>>
     THEN [Built(f, "prices", cp.out) EXCEPT
             !.prices = cp.out, !.ret = cp.out, !.pc = "returned"]
     ELSE [Built(f, "prices", cp.out) EXCEPT
             !.prices = cp.out, !.todo = batches, !.pc = "prices"]

\* faulty variant: the whole list is returned twice, nothing filtered out
seller_upload_stocks_return_all(f) ==
  [f EXCEPT !.ret = <<f.stocks, f.stocks>>, !.pc = "returned"]

\* the return statement of upload_stocks
seller_upload_stocks_return(f) ==
  [f EXCEPT !.ret = <<SelectSeq(f.stocks, LAMBDA stock : stock.stock # 0), f.stocks>>,
            !.pc = "returned"]

\* upload_stocks from create_stocks to the first update_stocks request
seller_upload_stocks(f) ==
  LET cs == seller_create_stocks(f.watch_remnants, f.offer_ids)
      g == [f EXCEPT !.offer_ids = cs.offer_ids]
      h == [Built(g, "stocks", cs.out) EXCEPT !.stocks = cs.out]
      batches == divide(cs.out, SellerStockBatch).val
  IN IF ~cs.ok THEN Throw(g, cs.err)
     ELSE IF batches = <<>>
     THEN seller_upload_stocks_return(h)
     ELSE [h EXCEPT !.todo = batches, !.pc = "stocks"]

\* the caller's statement after offer_ids = get_offer_ids(...)
seller_after_get_offer_ids(f) ==
  IF prog = "seller.main" THEN [f EXCEPT !.pc = "download"]
  ELSE IF prog = "seller.upload_prices" THEN seller_upload_prices(f)
  ELSE seller_upload_stocks(f)

\* faulty variant: total is compared with the length of the page just received
seller_get_offer_ids_page(f, some_prod) ==
  LET g == [f EXCEPT !.product_list = @ \o some_prod.items,
                     !.total = some_prod.total,
                     !.page = some_prod.last_id]
  IN IF g.total = Len(some_prod.items)
     THEN seller_after_get_offer_ids(Returned(
            [g EXCEPT !.offer_ids = [i \in 1..Len(g.product_list) |->
                                       g.product_list[i].offer_id]]))
     ELSE g

\* one turn of the while loop of get_offer_ids on the response some_prod
seller_get_offer_ids(f, some_prod) ==
  LET g == [f EXCEPT !.product_list = @ \o some_prod.items,
                     !.total = some_prod.total,
                     !.page = some_prod.last_id]
  IN IF g.total = Len(g.product_list)
     THEN seller_after_get_offer_ids(Returned(
            [g EXCEPT !.offer_ids = [i \in 1..Len(g.product_list) |->
                                       g.product_list[i].offer_id]]))
     ELSE g

\* main reads its environment; a coroutine is awaited with its arguments
seller_start ==
  /\ prog \in SellerProgs /\ pc = "start"
  /\ Apply(IF env THEN EnterListing(Cur) ELSE Uncaught(Cur, "EnvError"))

\* get_product_list: one request of the listing and its response
seller_get_product_list ==
  /\ prog \in SellerProgs /\ pc = "catalog"
  /\ \/ \E e \in NetErrors : Apply(Throw(Cur, e))
     \/ \E some_prod \in SellerResponses(page) :
          Apply(seller_get_offer_ids(
                  [Cur EXCEPT !.last_response = [total |-> some_prod.total,
                                                 cursor |-> some_prod.last_id],
                              !.received = IF first THEN some_prod.items
                                           ELSE @ \o some_prod.items,
                              !.first = FALSE],
                  some_prod))

\* download_stock in main
seller_download_stock ==
  /\ prog = "seller.main" /\ pc = "download"
  /\ \/ \E e \in NetErrors : Apply(Throw(Cur, e))
     \/ \E feed \in Feeds :
          Apply(seller_main_stocks([Cur EXCEPT !.watch_remnants = feed,
                                               !.downloaded = TRUE]))

\* update_stocks on the next batch
seller_update_stocks ==
  /\ prog \in SellerProgs /\ pc = "stocks"
  /\ \/ \E e \in NetErrors : Apply(Throw(Submit(Cur, "stocks", FALSE), e))
     \/ LET f == Submit(Cur, "stocks", TRUE)
        IN Apply(IF f.todo # <<>> THEN f
                 ELSE IF prog = "seller.main" THEN seller_main_prices(f)
                 ELSE seller_upload_stocks_return(f))

\* update_price on the next batch
seller_update_price ==
  /\ prog \in SellerProgs /\ pc = "prices"
  /\ \/ \E e \in NetErrors : Apply(Throw(Submit(Cur, "prices", FALSE), e))
     \/ LET f == Submit(Cur, "prices", TRUE)
        IN Apply(IF f.todo # <<>> THEN f
                 ELSE IF prog = "seller.main" THEN [f EXCEPT !.pc = "done"]
                 ELSE [f EXCEPT !.ret = f.prices, !.pc = "returned"])

(***************************************************************************)
(* market.py: main, upload_prices, upload_stocks, get_offer_ids.           *)
(***************************************************************************)
\* WAREHOUSE_FBS_ID, WAREHOUSE_DBS_ID
Warehouse(c) == IF c = "FBS" THEN "warehouse_fbs_id" ELSE "warehouse_dbs_id"

\* main calls upload_prices(...) without awaiting it: the call makes a
\* coroutine object and runs no statement of upload_prices
market_main_upload_prices(f) ==
  [f EXCEPT !.pending = Append(@, [coroutine |-> "upload_prices",
                                   campaign |-> f.campaign])]

\* main after the upload_prices call of a campaign
market_main_next_campaign(f) ==
  IF f.campaign = "FBS" THEN EnterListing([f EXCEPT !.campaign = "DBS"])
  ELSE [f EXCEPT !.pc = "done"]

\* main from create_stocks to the first update_stocks request of the campaign
market_main_stocks(f) ==
  LET cs == market_create_stocks(f.watch_remnants, f.offer_ids, Warehouse(f.campaign))
      g == [f EXCEPT !.offer_ids = cs.offer_ids]
      h == [Built(g, "stocks", cs.out) EXCEPT !.stocks = cs.out]
      batches == divide(cs.out, MarketStockBatch).val
  IN IF ~cs.ok THEN Throw(g, cs.err)
     ELSE IF batches = <<>>
     THEN market_main_next_campaign(market_main_upload_prices(h))
     ELSE [h EXCEPT !.todo = batches, !.pc = "stocks"]

\* upload_prices from create_prices to the first update_price request
market_upload_prices(f) ==
  LET cp == market_create_prices(f.watch_remnants, f.offer_ids)
      batches == divide(cp.out, MarketPriceBatch).val
  IN IF ~cp.ok THEN Throw(f, cp.err)
     ELSE IF batches = <<>>
     THEN [Built(f, "prices", cp.out) EXCEPT
             !.prices = cp.out, !.ret = cp.out, !.pc = "returned"]
     ELSE [Built(f, "prices", cp.out) EXCEPT
             !.prices = cp.out, !.todo = batches, !.pc = "prices"]

\* the return statement of upload_stocks
market_upload_stocks_return(f) ==
  [f EXCEPT !.ret = <<SelectSeq(f.stocks, LAMBDA stock : stock.items[1].count # 0),
                      f.stocks>>,
            !.pc = "returned"]

\* upload_stocks from create_stocks to the first update_stocks request
market_upload_stocks(f) ==
  LET cs == market_create_stocks(f.watch_remnants, f.offer_ids, Warehouse(f.campaign))
      g == [f EXCEPT !.offer_ids = cs.offer_ids]
      h == [Built(g, "stocks", cs.out) EXCEPT !.stocks = cs.out]
      batches == divide(cs.out, MarketStockBatch).val
  IN IF ~cs.ok THEN Throw(g, cs.err)
     ELSE IF batches = <<>>
     THEN market_upload_stocks_return(h)
     ELSE [h EXCEPT !.todo = batches, !.pc = "stocks"]

\* the caller's statement after offer_ids = get_offer_ids(...)
market_after_get_offer_ids(f) ==
  IF prog = "market.main" THEN market_main_stocks(f)
  ELSE IF prog = "market.upload_prices" THEN market_upload_prices(f)
  ELSE market_upload_stocks(f)

\* not page
Falsy(x) == x.type = "None" \/ (x.type = "str" /\ x.val = <<>>)

\* faulty variant: the loop ends after the first page whatever its token
market_get_offer_ids_once(f, some_prod) ==
  LET g == [f EXCEPT !.product_list = @ \o some_prod.offerMappingEntries,
                     !.page = some_prod.paging.nextPageToken]
  IN market_after_get_offer_ids(Returned(
       [g EXCEPT !.offer_ids = [i \in 1..Len(g.product_list) |->
                                  g.product_list[i].offer.shopSku]]))

\* one turn of the while loop of get_offer_ids on the response some_prod
market_get_offer_ids(f, some_prod) ==
  LET g == [f EXCEPT !.product_list = @ \o some_prod.offerMappingEntries,
                     !.page = some_prod.paging.nextPageToken]
  IN IF Falsy(g.page)
     THEN market_after_get_offer_ids(Returned(
            [g EXCEPT !.offer_ids = [i \in 1..Len(g.product_list) |->
                                       g.product_list[i].offer.shopSku]]))
     ELSE g

\* faulty variant: main lists the offers before it downloads the feed
market_start_listing_first ==
  /\ prog \in MarketProgs /\ pc = "start"
  /\ Apply(IF ~env THEN Uncaught(Cur, "EnvError")
           ELSE EnterListing([Cur EXCEPT !.campaign = "FBS"]))

\* main reads its environment; a coroutine is awaited with its arguments
market_start ==
  /\ prog \in MarketProgs /\ pc = "start"
  /\ Apply(IF ~env THEN Uncaught(Cur, "EnvError")
           ELSE IF prog = "market.main" THEN [Cur EXCEPT !.pc = "download"]
           ELSE EnterListing([Cur EXCEPT !.campaign = "FBS"]))

\* download_stock in main, before the try block
market_download_stock ==
  /\ prog = "market.main" /\ pc = "download"
  /\ \/ \E e \in NetErrors : Apply(Uncaught(Cur, e))
     \/ \E feed \in Feeds :
          Apply(EnterListing([Cur EXCEPT !.watch_remnants = feed, !.downloaded = TRUE,
                                         !.campaign = "FBS"]))

\* get_product_list: one request of the listing and its response
market_get_product_list ==
  /\ prog \in MarketProgs /\ pc = "catalog"
  /\ \/ \E e \in NetErrors : Apply(Throw(Cur, e))
     \/ \E some_prod \in MarketResponses(page) :
          Apply(market_get_offer_ids(
                  [Cur EXCEPT !.last_response = [cursor |-> some_prod.paging.nextPageToken],
                              !.received = IF first THEN some_prod.offerMappingEntries
                                           ELSE @ \o some_prod.offerMappingEntries,
                              !.first = FALSE],
                  some_prod))

\* update_stocks on the next batch
market_update_stocks ==
  /\ prog \in MarketProgs /\ pc = "stocks"
  /\ \/ \E e \in NetErrors : Apply(Throw(Submit(Cur, "stocks", FALSE), e))
     \/ LET f == Submit(Cur, "stocks", TRUE)
        IN Apply(IF f.todo # <<>> THEN f
                 ELSE IF prog = "market.main"
                 THEN market_main_next_campaign(market_main_upload_prices(f))
                 ELSE market_upload_stocks_return(f))

\* update_price on the next batch (upload_prices only: main never gets here)
market_update_price ==
  /\ prog \in MarketProgs /\ pc = "prices"
  /\ \/ \E e \in NetErrors : Apply(Throw(Submit(Cur, "prices", FALSE), e))
     \/ LET f == Submit(Cur, "prices", TRUE)
        IN Apply(IF f.todo # <<>> THEN f
                 ELSE [f EXCEPT !.ret = f.prices, !.pc = "returned"])

(***************************************************************************)
(* Single calls of the pure functions.                                     *)
(***************************************************************************)
Alphabet == {"5", "0", ".", "'", "x"}
Strings == UNION {[1..k -> Alphabet] : k \in 0..MaxStrLen}

CreatePricesProgs == {"seller.create_prices", "market.create_prices"}
CallProgs ==
  {"price_conversion", "seller.create_stocks", "market.create_stocks", "divide"}
    \cup CreatePricesProgs

\* the arguments of the call
Calls(p) ==
  IF p = "price_conversion" THEN {[price |-> S(x)] : x \in Strings}
  ELSE IF p = "divide"
  THEN {[lst |-> l, n |-> n] :
          l \in {None} \cup {L(x) : x \in SeqsUpTo(MaxListLen)}, n \in (-1)..MaxChunk}
  ELSE IF p \in CreatePricesProgs
  THEN {[watch_remnants |-> w, offer_ids |-> o] :
          w \in PriceFeedsUpTo(MaxFeedRows), o \in SeqsUpTo(MaxItems)}
  ELSE {[watch_remnants |-> w, offer_ids |-> o] :
          w \in FeedsUpTo(MaxFeedRows), o \in SeqsUpTo(MaxItems)}

call_price_conversion ==
  /\ prog = "price_conversion" /\ pc = "start"
  /\ Apply([Cur EXCEPT !.ret = price_conversion(call.price), !.pc = "returned"])

call_divide ==
  /\ prog = "divide" /\ pc = "start"
  /\ Apply([Cur EXCEPT !.ret = list_divide(call.lst, call.n), !.pc = "returned"])

call_seller_create_prices ==
  /\ prog = "seller.create_prices" /\ pc = "start"
  /\ Apply([Cur EXCEPT !.ret = seller_create_prices(call.watch_remnants, call.offer_ids),
                       !.pc = "returned"])

call_market_create_prices ==
  /\ prog = "market.create_prices" /\ pc = "start"
  /\ Apply([Cur EXCEPT !.ret = market_create_prices(call.watch_remnants, call.offer_ids),
                       !.pc = "returned"])

call_seller_create_stocks ==
  /\ prog = "seller.create_stocks" /\ pc = "start"
  /\ Apply([Cur EXCEPT !.ret = seller_create_stocks(call.watch_remnants, call.offer_ids),
                       !.pc = "returned"])

call_market_create_stocks ==
  /\ prog = "market.create_stocks" /\ pc = "start"
  /\ Apply([Cur EXCEPT !.ret = market_create_stocks(call.watch_remnants, call.offer_ids,
                                                    Warehouse("FBS")),
                       !.pc = "returned"])

(***************************************************************************)
(* Initial states and the specifications.                                  *)
(***************************************************************************)
Catalogs(p) ==
  SeqsUpTo(MaxItems)
    \cup (IF p \in SellerProgs THEN {BigCatalogSeller} ELSE {BigCatalogMarket})

InitOf(progs) ==
  /\ prog \in progs
  /\ \/ world = "free" /\ catalog = <<>>
     \/ world = "honest" /\ prog \notin CallProgs /\ catalog \in Catalogs(prog)
  /\ env \in (IF prog \in Mains /\ world = "free" THEN BOOLEAN ELSE {TRUE})
  /\ call \in (IF prog \in CallProgs THEN Calls(prog) ELSE {None})
  /\ pc = "start" /\ err = "" /\ printed = "" /\ campaign = ""
  /\ watch_remnants \in (IF prog \in Uploads THEN Feeds ELSE {<<>>})
  /\ page = None /\ total = 0 /\ product_list = <<>> /\ offer_ids = <<>>
  /\ stocks = <<>> /\ prices = <<>> /\ todo = <<>> /\ ret = None
  /\ pending = <<>> /\ downloaded = FALSE /\ first = TRUE /\ last_response = None /\ received = <<>>
  /\ listings = <<>> /\ built = <<>> /\ sent = <<>>

NextSeller ==
  \/ seller_start
  \/ seller_get_product_list
  \/ seller_download_stock
  \/ seller_update_stocks
  \/ seller_update_price

NextMarket ==
  \/ market_start
  \/ market_download_stock
  \/ market_get_product_list
  \/ market_update_stocks
  \/ market_update_price

NextCalls ==
  \/ call_price_conversion
  \/ call_seller_create_prices
  \/ call_market_create_prices
  \/ call_divide
  \/ call_seller_create_stocks
  \/ call_market_create_stocks

\* seller.py: main and the coroutines
SpecSeller == InitOf(SellerProgs) /\ [][NextSeller]_vars
\* market.py: main and the coroutines
SpecMarket == InitOf(MarketProgs) /\ [][NextMarket]_vars
\* the pure functions called on their own
SpecCalls == InitOf(CallProgs) /\ [][NextCalls]_vars

\* the two main programs alone, every request answered or failed in the end
NextMains ==
  \/ seller_start \/ seller_get_product_list \/ seller_download_stock
  \/ seller_update_stocks \/ seller_update_price
  \/ market_start \/ market_download_stock \/ market_get_product_list
  \/ market_update_stocks
FairSpecMains == InitOf(Mains) /\ [][NextMains]_vars /\ WF_vars(NextMains)

\* upload_stocks of both files awaited by a caller
UploadStocksProgs == {"seller.upload_stocks", "market.upload_stocks"}
NextUploadStocks ==
  \/ seller_start \/ seller_get_product_list \/ seller_update_stocks
  \/ market_start \/ market_get_product_list \/ market_update_stocks
SpecUploadStocks == InitOf(UploadStocksProgs) /\ [][NextUploadStocks]_vars

Init == InitOf(SellerProgs \cup MarketProgs \cup CallProgs)
Next == NextSeller \/ NextMarket \/ NextCalls
Spec == Init /\ [][Next]_vars

(***************************************************************************)
(* Properties.                                                             *)
(***************************************************************************)
NoRepeats(lst) == \A i, j \in 1..Len(lst) : lst[i] = lst[j] => i = j
Count(lst, x) == Cardinality({k \in 1..Len(lst) : lst[k] = x})
IsPrefix(a, b) == Len(a) <= Len(b) /\ SubSeq(b, 1, Len(a)) = a

\* the offer id and the quantity of a stock record of either file
StockId(e) == IF "offer_id" \in DOMAIN e THEN e.offer_id ELSE e.sku
StockQty(e) == IF "stock" \in DOMAIN e THEN e.stock ELSE e.items[1].count

\* seller main ended without an exception
SellerMainOk == prog = "seller.main" /\ pc = "done" /\ err = ""
\* market main ended without an exception
MarketMainOk == prog = "market.main" /\ pc = "done" /\ err = ""

\* C1: when no request of seller main fails, every feed row whose code is in
\* the offer list the marketplace returned has a price entry (RUB, normalized
\* price) in a submitted price request.
C1_PriceSentForEveryListedRow ==
  SellerMainOk =>
    \A i \in 1..Len(watch_remnants) :
      InList(watch_remnants[i].code, listings[1]) =>
        \E k \in 1..Len(sent) :
          /\ sent[k].kind = "prices"
          /\ \E j \in 1..Len(sent[k].batch) :
               /\ sent[k].batch[j].offer_id = watch_remnants[i].code
               /\ sent[k].batch[j].currency_code = "RUB"
               /\ sent[k].batch[j].price = price_conversion(watch_remnants[i].price).val

\* C2: when no request of market main fails, for each of the two campaigns
\* every feed row whose code is in the campaign's offer list has a price entry
\* in a price request submitted for that campaign.
C2_PricesPostedForBothCampaigns ==
  MarketMainOk =>
    \A n \in 1..2 :
      \A i \in 1..Len(watch_remnants) :
        InList(watch_remnants[i].code, listings[n]) =>
          \E k \in 1..Len(sent) :
            /\ sent[k].kind = "prices"
            /\ sent[k].campaign = (IF n = 1 THEN "FBS" ELSE "DBS")
            /\ \E j \in 1..Len(sent[k].batch) :
                 sent[k].batch[j].id = watch_remnants[i].code

CreateStocksReturned ==
  /\ prog \in {"seller.create_stocks", "market.create_stocks"}
  /\ pc = "returned"

\* C3: create_stocks returns as many entries as the offer list had on entry;
\* for an offer list without repeated ids it returns exactly one entry per
\* offer id and no other entry, with the normalized quantity of the (first)
\* feed row of that code, or 0 when the feed has no row of that code.
C3_OneStockEntryPerOffer ==
  (CreateStocksReturned /\ ret.ok) =>
    LET w == call.watch_remnants
        o == call.offer_ids
        out == ret.out
    IN /\ Len(out) = Len(o)
       /\ NoRepeats(o) =>
            /\ \A i \in 1..Len(o) : Cardinality({k \in 1..Len(out) : StockId(out[k]) = o[i]}) = 1
            /\ \A k \in 1..Len(out) :
                 LET rows == {i \in 1..Len(w) : w[i].code = StockId(out[k])}
                 IN /\ InList(StockId(out[k]), o)
                    /\ StockQty(out[k]) =
                         IF rows = {} THEN 0
                         ELSE StockOf(w[CHOOSE i \in rows : \A j \in rows : i <= j]).val

\* C3 witness: offers 1 and 2, a feed row for 2 alone: 2 carries the row's
\* quantity and 1 is zero-filled.
C3_Witness ==
  /\ CreateStocksReturned /\ ret.ok /\ prog = "seller.create_stocks"
  /\ call.offer_ids = <<1, 2>>
  /\ Len(call.watch_remnants) = 1 /\ call.watch_remnants[1].code = 2
  /\ ret.out = <<[offer_id |-> 2, stock |-> 100], [offer_id |-> 1, stock |-> 0]>>

\* C6 reference: the documented quantity rule
IsNumeric(q) == q # <<>> /\ \A k \in 1..Len(q) : q[k] \in {"0", "1", "2", "3", "4", "5", "6", "7", "8", "9"}
NormalQuantity(q) ==
  IF q = <<">", "1", "0">> THEN 100 ELSE IF q = <<"1">> THEN 0 ELSE DigitsValue(q)

\* the feed rows create_stocks matches: a row whose code still has an
\* occurrence left in the offer list when the loop reaches it
MatchedRows(w, o) ==
  {i \in 1..Len(w) : Cardinality({j \in 1..(i - 1) : w[j].code = w[i].code}) < Count(o, w[i].code)}

\* C6: in both files a matched row's quantity ">10" becomes 100, "1" becomes
\* 0, any other numeric string becomes its number; a matched row with a
\* non-numeric quantity such as "abc" makes create_stocks raise ValueError.
C6_QuantityNormalization ==
  CreateStocksReturned =>
    LET w == call.watch_remnants
        M == MatchedRows(w, call.offer_ids)
        bad == {i \in M : ~(w[i].qty.val = <<">", "1", "0">> \/ IsNumeric(w[i].qty.val))}
    IN IF bad # {} THEN ~ret.ok /\ ret.err = "ValueError"
       ELSE /\ ret.ok
            /\ \A i \in M :
                 LET e == ret.out[Cardinality({j \in M : j <= i})]
                 IN StockId(e) = w[i].code /\ StockQty(e) = NormalQuantity(w[i].qty.val)

\* C6 witness: market create_stocks returned for rows with the quantities "1"
\* and ">10", both matched.
C6_Witness ==
  /\ CreateStocksReturned /\ prog = "market.create_stocks" /\ ret.ok
  /\ call.offer_ids = <<1, 2>>
  /\ Len(call.watch_remnants) = 2
  /\ call.watch_remnants[1].code = 2 /\ call.watch_remnants[1].qty.val = <<"1">>
  /\ call.watch_remnants[2].code = 1 /\ call.watch_remnants[2].qty.val = <<">", "1", "0">>
  /\ StockQty(ret.out[1]) = 0 /\ StockQty(ret.out[2]) = 100

\* C7: price_conversion returns exactly the digit characters of the part of
\* the string before its first '.', in their order (the empty string when
\* there is none); the result holds only digits and converting it again gives
\* the same string.
C7_PriceConversionDigitsBeforeDot ==
  (prog = "price_conversion" /\ pc = "returned") =>
    LET p == call.price.val
        dots == {i \in 1..Len(p) : p[i] = "."}
        stop == IF dots = {} THEN Len(p) + 1 ELSE CHOOSE i \in dots : \A j \in dots : i <= j
        D == {i \in 1..(stop - 1) : p[i] \in {"0", "1", "2", "3", "4", "5", "6", "7", "8", "9"}}
    IN /\ ret.ok
       /\ Len(ret.val) = Cardinality(D)
       /\ \A k \in 1..Len(ret.val) :
            ret.val[k] = p[CHOOSE i \in D : Cardinality({j \in D : j <= i}) = k]
       /\ price_conversion(S(ret.val)) = ret

\* C7 witness: "5.0" was converted to "5".
C7_Witness ==
  /\ prog = "price_conversion" /\ pc = "returned"
  /\ call.price.val = <<"5", ".", "0">>
  /\ ret.val = <<"5">>

\* the batches of the requests of one kind for one campaign, joined in the
\* order of the requests
RECURSIVE Joined(_, _, _)
Joined(requests, kind, camp) ==
  IF requests = <<>> THEN <<>>
  ELSE (IF Head(requests).kind = kind /\ Head(requests).campaign = camp
        THEN Head(requests).batch ELSE <<>>) \o Joined(Tail(requests), kind, camp)

\* every request carries records of a list that was built; the requests for a
\* built list carry its records in order, all of them once the program has
\* gone past that list's loop
BatchesCoverBuilt ==
  /\ \A k \in 1..Len(sent) :
       \E b \in 1..Len(built) :
         built[b].kind = sent[k].kind /\ built[b].campaign = sent[k].campaign
  /\ \A b \in 1..Len(built) :
       LET joined == Joined(sent, built[b].kind, built[b].campaign)
       IN /\ IsPrefix(joined, built[b].records)
          /\ (b < Len(built) \/ (err = "" /\ pc \in {"done", "returned"}))
               => joined = built[b].records

\* C4: in market.py every stock PUT carries 1..2000 entries and every price
\* POST 1..500 entries; the batches sent for one campaign, joined in order,
\* are the records built for it.
C4_MarketBatches ==
  prog \in MarketProgs =>
    /\ \A k \in 1..Len(sent) :
         /\ Len(sent[k].batch) >= 1
         /\ sent[k].kind = "stocks" => Len(sent[k].batch) <= 2000
         /\ sent[k].kind = "prices" => Len(sent[k].batch) <= 500
    /\ BatchesCoverBuilt

\* C4 witness: market main ended after a full stock batch of 2000 entries
\* followed by the batch with the rest.
C4_Witness ==
  /\ MarketMainOk
  /\ \E k \in 1..(Len(sent) - 1) :
       /\ sent[k].kind = "stocks" /\ Len(sent[k].batch) = 2000
       /\ sent[k + 1].kind = "stocks" /\ sent[k + 1].campaign = sent[k].campaign
       /\ Len(sent[k + 1].batch) = 1

\* market upload_prices returned after two full price batches of 500 entries
MarketPriceBatchesSent ==
  /\ prog = "market.upload_prices" /\ pc = "returned"
  /\ Len(sent) = 3 /\ Len(sent[1].batch) = 500 /\ Len(sent[3].batch) = 1

\* C5: in seller.py every stock request carries 1..100 entries; every price
\* request carries at most 900 entries when issued from main and at most 1000
\* when issued from upload_prices; the batches, joined in order, are the list
\* that was built.
C5_SellerBatches ==
  prog \in SellerProgs =>
    /\ \A k \in 1..Len(sent) :
         /\ Len(sent[k].batch) >= 1
         /\ sent[k].kind = "stocks" => Len(sent[k].batch) <= 100
         /\ (sent[k].kind = "prices" /\ prog = "seller.main") => Len(sent[k].batch) <= 900
         /\ (sent[k].kind = "prices" /\ prog = "seller.upload_prices")
              => Len(sent[k].batch) <= 1000
    /\ BatchesCoverBuilt

\* C5 witness: seller main ended after a full price batch of 900 entries
\* followed by the batch with the rest.
C5_Witness ==
  /\ SellerMainOk
  /\ \E k \in 1..(Len(sent) - 1) :
       /\ sent[k].kind = "prices" /\ Len(sent[k].batch) = 900
       /\ sent[k + 1].kind = "prices" /\ Len(sent[k + 1].batch) = 1

\* seller upload_prices returned after a full price batch of 1000 entries
SellerUploadPriceBatchesSent ==
  /\ prog = "seller.upload_prices" /\ pc = "returned"
  /\ Len(sent) = 2 /\ Len(sent[1].batch) = 1000 /\ Len(sent[2].batch) = 1

\* a response without a next-page token, or with an empty one
NoToken(t) == t = None \/ t = S(<<>>)
\* this step returns from get_offer_ids
ListingReturns == Len(listings') = Len(listings) + 1
\* this step receives a page and stays in the loop of the same listing
ListingGoesOn == ~ListingReturns /\ pc' = "catalog"

MarketListing == prog \in MarketProgs /\ pc = "catalog"

\* the page token of the request about to be sent
C8_RequestToken ==
  MarketListing =>
    IF first THEN page = S(<<>>)
    ELSE page = last_response.cursor /\ ~NoToken(page)

\* the effect of one response
C8_Response ==
  MarketListing =>
    /\ ListingReturns =>
         /\ NoToken(last_response'.cursor)
         /\ listings'[Len(listings')] =
              [i \in 1..Len(received') |-> received'[i].offer.shopSku]
    /\ ListingGoesOn =>
         /\ ~NoToken(last_response'.cursor)
         /\ page' = last_response'.cursor
         /\ listings' = listings

\* C8: market get_offer_ids sends its first request with an empty page token
\* and every later one with the nextPageToken just received; it stops at the
\* first response without a (non-empty) token and returns the shopSku of every
\* entry of every page in the order received.
C8_MarketPaging == [](C8_RequestToken) /\ [][C8_Response]_vars

\* C8 witness: the listing of the 2001-offer catalog, served 200 a page,
\* returned all 2001 ids after the page without a token.
C8_Witness ==
  /\ prog = "market.upload_stocks" /\ world = "honest"
  /\ Len(listings) = 1 /\ listings[1] = BigCatalogMarket
  /\ Len(received) = 2001 /\ NoToken(last_response.cursor)

SellerListing == prog \in SellerProgs /\ pc = "catalog"

\* the last_id of the request about to be sent
C9_RequestCursor ==
  SellerListing =>
    IF first THEN page = S(<<>>)
    ELSE page = last_response.cursor /\ last_response.total # Len(received)

\* the effect of one response; against the service that serves a catalog of N
\* items in non-empty pages with total N every response that does not end the
\* loop brings the count nearer to N
C9_Response ==
  SellerListing =>
    /\ ListingReturns =>
         /\ last_response'.total = Len(received')
         /\ listings'[Len(listings')] = [i \in 1..Len(received') |-> received'[i].offer_id]
         /\ world = "honest" => listings'[Len(listings')] = catalog
    /\ ListingGoesOn =>
         /\ last_response'.total # Len(received')
         /\ page' = last_response'.cursor
         /\ listings' = listings
         /\ world = "honest" =>
              Len(received) < Len(received') /\ Len(received') < Len(catalog)

Ended == pc \in {"done", "crashed"}

\* C10: every run of either main eventually reaches its end, whatever the
\* external services answer.
C10_MainTerminates == <>Ended

\* a run of main against services that serve a catalog properly does end
HonestMainTerminates == (world = "honest") => <>Ended
\* a run of main that never ends stays in one get_offer_ids loop for ever
OnlyListingDiverges == <>Ended \/ <>[](pc = "catalog")

\* C11: in both mains a timeout, a connection failure or any other exception
\* raised by a network step (feed download, catalog paging, stock push, price
\* push) is caught inside main and reported by a printed message; none leaves
\* main uncaught.
C11_NetworkFailuresCaught ==
  (prog \in Mains /\ err \in NetErrors) => (pc = "done" /\ printed # "")

\* C12: when a required environment value is absent, main fails at startup
\* with an error that no except clause of main swallows, and no network
\* request (feed download, catalog fetch, update) has been issued.
C12_MissingEnvIsFatal ==
  (prog \in Mains /\ ~env) =>
    /\ pc \in {"start", "crashed"}
    /\ pc = "crashed" => (err = "EnvError" /\ printed = "")
    /\ watch_remnants = <<>> /\ first /\ last_response = None
    /\ received = <<>> /\ listings = <<>> /\ built = <<>> /\ sent = <<>>

\* C12 witness: market main has died at startup of the missing value.
C12_Witness ==
  prog = "market.main" /\ ~env /\ pc = "crashed" /\ err = "EnvError" /\ sent = <<>>

\* only the last request of a run may have failed, and it ended the run; the
\* requests for a built list carry its records in order, each at most once
C13_FailureIsLast ==
  prog \in Mains =>
    /\ \A k \in 1..(Len(sent) - 1) : sent[k].ok
    /\ (Len(sent) > 0 /\ ~sent[Len(sent)].ok) => (pc = "done" /\ err \in NetErrors)
    /\ err # "" => pc \in {"done", "crashed"}
    /\ \A b \in 1..Len(built) :
         IsPrefix(Joined(sent, built[b].kind, built[b].campaign), built[b].records)

\* a run takes no step after an exception, and what was submitted stays
C13_NoStepAfterFailure ==
  prog \in Mains => (err = "" /\ IsPrefix(sent, sent'))

\* C13: there is no retry: in one run of either main each built batch is
\* submitted at most once; once a catalog or update request fails no further
\* request is issued (the remaining batches, the price push and, in market.py,
\* the second campaign are skipped), and the batches accepted before the
\* failure stay as submitted.
C13_NoRetry == [](C13_FailureIsLast) /\ [][C13_NoStepAfterFailure]_vars

\* C13 witness: market main ended at the failure of its second stock request;
\* the first batch stays accepted, the failed batch is still to do and the
\* second campaign was never listed.
C13_Witness ==
  /\ prog = "market.main" /\ pc = "done" /\ err \in NetErrors
  /\ Len(sent) = 2 /\ sent[1].ok /\ ~sent[2].ok
  /\ campaign = "FBS" /\ todo # <<>> /\ Len(listings) = 1

\* no update request before both the feed and the catalog have been fetched
C14_PushAfterBothFetched ==
  /\ (pc \in {"stocks", "prices"} \/ sent # <<>>) => (downloaded /\ listings # <<>>)
  /\ \A k \in 1..Len(sent) : sent[k].campaign = "DBS" => Len(listings) = 2

\* C14: in every run of either main the feed download completes before the
\* first offer-catalog request is sent, and no update request is sent before
\* both the feed and the catalog have been fully fetched.
C14_FeedBeforeCatalog ==
  prog \in Mains =>
    /\ pc = "catalog" => downloaded
    /\ C14_PushAfterBothFetched

\* C14 as the code has it: market main downloads the feed before its first
\* catalog request; seller main lists its catalog to the end and only then
\* downloads the feed; in both no update request is sent before both the
\* feed and the catalog have been fully fetched.
C14_FetchOrder ==
  prog \in Mains =>
    /\ prog = "market.main" =>
         /\ pc = "download" => (first /\ listings = <<>>)
         /\ pc = "catalog" => downloaded
    /\ prog = "seller.main" =>
         /\ pc = "catalog" => ~downloaded
         /\ pc = "download" => (~downloaded /\ Len(listings) = 1)
    /\ C14_PushAfterBothFetched

\* C14 witness: seller main has listed its catalog and is about to download
\* the feed.
C14_Witness ==
  /\ prog = "seller.main" /\ pc = "download" /\ ~downloaded
  /\ listings = <<<<1, 2>>>> /\ sent = <<>>

UploadStocksReturned == prog \in UploadStocksProgs /\ pc = "returned"

\* C15: upload_stocks of both files returns a pair: its second element is
\* the full list of stock records that was built and pushed; its first
\* element is exactly the records of that list with a non-zero count, in the
\* same order; an offer absent from the feed, or whose feed quantity is "1",
\* is in the second element and never in the first.
C15_UploadStocksPair ==
  UploadStocksReturned =>
    LET not_empty == ret[1]
        full == ret[2]
        NZ == {i \in 1..Len(full) : StockQty(full[i]) # 0}
    IN /\ Len(built) = 1 /\ full = built[1].records
       /\ Joined(sent, "stocks", campaign) = full
       /\ Len(not_empty) = Cardinality(NZ)
       /\ \A i \in NZ :
            not_empty[i - Cardinality({j \in 1..i : StockQty(full[j]) = 0})] = full[i]
       /\ \A n \in 1..Len(listings[1]) :
            (\A i \in 1..Len(watch_remnants) :
               watch_remnants[i].code = listings[1][n] => watch_remnants[i].qty.val = <<"1">>)
            => /\ \E k \in 1..Len(full) : StockId(full[k]) = listings[1][n]
               /\ \A k \in 1..Len(not_empty) : StockId(not_empty[k]) # listings[1][n]

\* C15 witness: market upload_stocks returned for the offers 1 and 2 and a
\* feed row of quantity "5" for 1: both are in the full list, 1 alone in the
\* first element.
C15_Witness ==
  /\ UploadStocksReturned /\ prog = "market.upload_stocks"
  /\ listings = <<<<1, 2>>>>
  /\ Len(watch_remnants) = 1 /\ watch_remnants[1].code = 1
  /\ watch_remnants[1].qty.val = <<"5">>
  /\ Len(ret[2]) = 2 /\ Len(ret[1]) = 1 /\ StockId(ret[1][1]) = 1

\* the parts joined in order
RECURSIVE Flatten(_)
Flatten(parts) == IF parts = <<>> THEN <<>> ELSE Head(parts) \o Flatten(Tail(parts))

DivideReturned == prog = "divide" /\ pc = "returned"

\* C16: for every list and every positive n, divide yields sublists that
\* joined in order equal the list; every sublist but the last has exactly n
\* elements, the last has between 1 and n, and an empty list yields none.
C16_DivideParts ==
  (DivideReturned /\ call.lst.type = "list" /\ call.n >= 1) =>
    LET lst == call.lst.val
        n == call.n
    IN /\ ret.ok
       /\ Flatten(ret.val) = lst
       /\ \A k \in 1..(Len(ret.val) - 1) : Len(ret.val[k]) = n
       /\ ret.val # <<>> =>
            (1 <= Len(ret.val[Len(ret.val)]) /\ Len(ret.val[Len(ret.val)]) <= n)
       /\ lst = <<>> => ret.val = <<>>

\* C16 witness: a list of five elements was cut by 2 into parts of 2, 2 and 1.
C16_Witness ==
  /\ DivideReturned /\ call.lst.type = "list" /\ call.n = 2
  /\ Len(call.lst.val) = 5 /\ ret.ok /\ Len(ret.val) = 3 /\ Len(ret.val[3]) = 1

\* C17: divide raises ValueError whenever n is less than or equal to zero
\* (for n = 0 and for a negative n such as -1), and raises TypeError when lst
\* is not a list (None).
C17_DivideRaises ==
  DivideReturned =>
    /\ (call.lst.type = "list" /\ call.n <= 0) => (~ret.ok /\ ret.err = "ValueError")
    /\ call.lst = None => (~ret.ok /\ ret.err = "TypeError")

\* divide does raise ValueError for n = 0 and TypeError for None
DivideRaisesForZeroAndNone ==
  DivideReturned =>
    /\ (call.lst.type = "list" /\ call.n = 0) => (~ret.ok /\ ret.err = "ValueError")
    /\ call.lst = None => (~ret.ok /\ ret.err = "TypeError")

CreatePricesReturned == prog \in CreatePricesProgs /\ pc = "returned"

\* the feed rows create_prices matches: those whose code is in the offer list
PricedRows(w, o) == {i \in 1..Len(w) : \E k \in 1..Len(o) : o[k] = w[i].code}

\* C18: create_prices of both files returns a price entry, without raising,
\* for matched feed rows whose price is a number and not a string (1500.75,
\* 1000.0); in market.py the entry's value is the integer part of the number.
C18_NumericPricesAccepted ==
  CreatePricesReturned =>
    LET w == call.watch_remnants
        M == PricedRows(w, call.offer_ids)
    IN (M # {} /\ \A i \in M : w[i].price.type = "float") =>
         /\ ret.ok
         /\ Len(ret.out) = Cardinality(M)
         /\ prog = "market.create_prices" =>
              \A i \in M : ret.out[Cardinality({j \in M : j <= i})].price.value = w[i].price.whole

\* the places of the offer list that create_stocks leaves: the first
\* occurrences of an id go, one for each feed row of that code
KeptPlaces(w, o) ==
  {k \in 1..Len(o) :
     Cardinality({j \in 1..(k - 1) : o[j] = o[k]})
       >= Cardinality({i \in 1..Len(w) : w[i].code = o[k]})}

\* C19: create_stocks changes the caller's offer_ids and nothing else: it
\* removes one occurrence of each feed code it matches, so that after the call
\* offer_ids holds exactly the catalog ids no feed row matched, in their
\* order; create_prices leaves offer_ids as it was.  (The feed rows are only
\* read by both: no statement of either function assigns to a row.)
C19_FrameOfCreate ==
  /\ (CreateStocksReturned /\ ret.ok) =>
       LET w == call.watch_remnants
           o == call.offer_ids
           Kept == KeptPlaces(w, o)
       IN /\ Len(ret.offer_ids) = Cardinality(Kept)
          /\ \A k \in Kept :
               ret.offer_ids[Cardinality({j \in Kept : j <= k})] = o[k]
          /\ NoRepeats(o) =>
               \A x \in Ids :
                 InList(x, ret.offer_ids)
                   <=> (InList(x, o) /\ \A i \in 1..Len(w) : w[i].code # x)
  /\ CreatePricesReturned => ret.offer_ids = call.offer_ids

\* C19 witness: seller create_stocks returned for the offers 1 and 2 and a
\* feed row for 1: the caller's list is left holding 2 alone.
C19_Witness ==
  /\ CreateStocksReturned /\ prog = "seller.create_stocks" /\ ret.ok
  /\ call.offer_ids = <<1, 2>>
  /\ Len(call.watch_remnants) = 1 /\ call.watch_remnants[1].code = 1
  /\ ret.offer_ids = <<2>>

\* the offer id of a price record of either file
PriceId(e) == IF "offer_id" \in DOMAIN e THEN e.offer_id ELSE e.id

\* the feed rows of code x
RowsOf(w, x) == {i \in 1..Len(w) : w[i].code = x}

\* the code x is listed once and has several feed rows
ListedOnceFedTwice(w, o, x) == Count(o, x) = 1 /\ Cardinality(RowsOf(w, x)) >= 2

\* C20: when the feed has several rows of one code and the catalog lists the
\* code once, create_stocks emits exactly one stock entry for it, with the
\* quantity of the first such row in feed order, whereas create_prices emits
\* one price entry per such row, in feed order.
C20_DuplicateFeedRows ==
  /\ (CreateStocksReturned /\ ret.ok) =>
       \A x \in Ids :
         ListedOnceFedTwice(call.watch_remnants, call.offer_ids, x) =>
           LET w == call.watch_remnants
               head == CHOOSE i \in RowsOf(w, x) : \A j \in RowsOf(w, x) : i <= j
               E == {k \in 1..Len(ret.out) : StockId(ret.out[k]) = x}
           IN /\ Cardinality(E) = 1
              /\ \A k \in E : StockQty(ret.out[k]) = NormalQuantity(w[head].qty.val)
  /\ (CreatePricesReturned /\ ret.ok) =>
       \A x \in Ids :
         ListedOnceFedTwice(call.watch_remnants, call.offer_ids, x) =>
           LET w == call.watch_remnants
               M == PricedRows(w, call.offer_ids)
               E == {k \in 1..Len(ret.out) : PriceId(ret.out[k]) = x}
           IN /\ Cardinality(E) = Cardinality(RowsOf(w, x))
              /\ \A i \in RowsOf(w, x) :
                   LET e == ret.out[Cardinality({j \in M : j <= i})]
                       digits == SelectSeq(BeforeDot(w[i].price.val), IsDigit)
                   IN /\ PriceId(e) = x
                      /\ IF prog = "seller.create_prices" THEN e.price = digits
                         ELSE e.price.value = DigitsValue(digits)

\* C20 witness: seller create_prices returned two price entries for the one
\* listed code 1 and its two feed rows.
C20_Witness ==
  /\ CreatePricesReturned /\ prog = "seller.create_prices" /\ ret.ok
  /\ call.offer_ids = <<1>>
  /\ Len(call.watch_remnants) = 2
  /\ call.watch_remnants[1].code = 1 /\ call.watch_remnants[2].code = 1
  /\ Len(ret.out) = 2

\* create_stocks returned one entry for the listed code 1 and its two feed
\* rows of different quantities
OneStockForTwoRows ==
  /\ CreateStocksReturned /\ ret.ok /\ call.offer_ids = <<1>>
  /\ Len(call.watch_remnants) = 2
  /\ call.watch_remnants[1].code = 1 /\ call.watch_remnants[2].code = 1
  /\ call.watch_remnants[1].qty.val = <<"5">>
  /\ call.watch_remnants[2].qty.val = <<">", "1", "0">>
  /\ Len(ret.out) = 1 /\ StockQty(ret.out[1]) = 5

====
